---- MODULE Spec2Model ----
(***************************************************************************)
(* Model of config/config.py: a run of main() reads a JSON file, connects  *)
(* to PostgreSQL, provisions schema `controller`, allocates max+1 as the   *)
(* next version of the config name, inserts the row, commits, and writes   *)
(* a best-effort audit row to controller.log.  Several runs (independent   *)
(* processes) share one store and interleave at statement granularity.     *)
(*                                                                         *)
(* Every database call can raise.  A raised exception is an input of the   *)
(* action that makes the call.  A commit that raises persists nothing.     *)
(* An INSERT whose (name, version) key is held by another open             *)
(* transaction waits for that transaction to end (PostgreSQL unique-index  *)
(* behaviour); against a committed key it raises a unique violation.       *)
(* The isolation level is psycopg2's default READ COMMITTED.               *)
(*                                                                         *)
(* Spec lets the runs interleave, all with one document on the disk;       *)
(* SpecSeq makes the runs one after another, with several documents.       *)
(***************************************************************************)
EXTENDS Integers, Sequences, FiniteSets, Bags, TLC

VARIABLES catalog, app_config, log, run, faults, disk

vars == <<catalog, app_config, log, run, faults, disk>>

(* ------------------------------ bounds --------------------------------- *)
MaxRuns == 2
MaxFaults == 1

Runs == 1..MaxRuns

(* ------------------------- inputs of a run ----------------------------- *)
\* CONFIG_NAME (line 30): the logical names the runs are started with.
Names == {"lottery", "other"}

\* Significant bits of a Python float (IEEE 754 binary64).
MantissaBits == 53

\* A config file holds one JSON number literal written with a fraction
\* part, of value 2^exp2 + low: "2.0" is exp2 = 1, low = 0 and
\* "18014398509481985.0" is exp2 = 54, low = 1.  json.load parses such a
\* literal with float().
Docs == { [exp2 |-> 1, low |-> 0],
          [exp2 |-> MantissaBits + 1, low |-> 1],
          [exp2 |-> MantissaBits + 1, low |-> 4] }

\* The one document of the runs that interleave
SmallDocs == { [exp2 |-> 1, low |-> 0] }

\* What open()/json.load do with the file at CONFIG_PATH.
FileKinds == {"ok", "missing", "malformed", "unreadable"}

NoDoc == [exp2 |-> 0, low |-> 0]

\* The files CONFIG_PATH can point to, given the documents on the disk
Files(docs) == { [kind |-> "ok", doc |-> d] : d \in docs }
                 \cup { [kind |-> k, doc |-> NoDoc] : k \in FileKinds \ {"ok"} }

(* --------------------------- JSON conversions -------------------------- *)
\* The documents are below the range where float() overflows to inf.
\* float(): round 2^exp2 + low to 53 significant bits, ties to even.
PyFloat_ceil(d) ==
  IF d.exp2 < MantissaBits THEN d
  ELSE LET s   == 2 ^ (d.exp2 - MantissaBits + 1)
           q   == d.low \div s
           lo  == IF d.low % s # 0 THEN (q + 1) * s ELSE q * s
       IN  [exp2 |-> d.exp2, low |-> lo]

PyFloat(d) ==
  IF d.exp2 < MantissaBits THEN d
  ELSE LET s   == 2 ^ (d.exp2 - MantissaBits + 1)
           q   == d.low \div s
           rem == d.low % s
           up  == (2 * rem > s) \/ (2 * rem = s /\ q % 2 = 1)
           lo  == IF up THEN (q + 1) * s ELSE q * s
       IN  [exp2 |-> d.exp2, low |-> lo]

\* json.load(f): the Python value of the document.
json_load(d) == PyFloat(d)

\* json.dumps(v): the text psycopg2 sends; a finite float is written by
\* repr(), the shortest decimal literal that denotes the float's value.
json_dumps(v) == [token |-> "number", num |-> v]

\* %s::jsonb parses the literal into a numeric, which keeps its decimal
\* value exactly.
JsonbValue(text) == text.num

(* ------------------------------- store --------------------------------- *)
\* A table is the bag of its rows (the columns id and created_at, which
\* the store fills in, are left out).
InsertRow_replace(table, row) == SetToBag({row})

InsertRow(table, row) == table (+) SetToBag({row})

\* The catalog lists the schema objects in creation order.
Exists(cat, obj) == \E i \in 1..Len(cat) : cat[i] = obj

CreateAlways(cat, obj) == Append(cat, obj)

\* CREATE ... IF NOT EXISTS
CreateIfNotExists(cat, obj) == IF Exists(cat, obj) THEN cat ELSE Append(cat, obj)

ensure_log_table(cat) ==
  CreateIfNotExists(CreateIfNotExists(cat, "controller"), "controller.log")

ensure_schema_and_table(cat) ==
  CreateIfNotExists(
    CreateIfNotExists(
      CreateIfNotExists(
        CreateIfNotExists(cat, "controller"),
        "controller.log"),
      "controller.app_config"),
    "idx_app_config_name_version")

Msg_latest(text, version, name) ==
  [text |-> text, version |-> IF version > 0 THEN version - 1 ELSE 0,
   name |-> name]

\* Audit messages: a text tag and the values formatted into the message.
Msg(text, version, name) == [text |-> text, version |-> version, name |-> name]

(* --------------------------- log_best_effort --------------------------- *)
\* The step of log_best_effort that raises (none: no step does), and
\* whether conn.close() in its finally block raises.
LogSteps == {"none", "connect", "ensure", "insert", "commit"}
LogInputs == { li \in [step : LogSteps, close : BOOLEAN] :
                 li.close => li.step # "connect" }
LogCost(li) == (IF li.step # "none" THEN 1 ELSE 0) + (IF li.close THEN 1 ELSE 0)

\* Result of one call: the catalog and log table afterwards, whether the
\* call raised to its caller, and whether its connection was left open.
log_best_effort_noclose(action, status, message, li) ==
  LET connected == li.step # "connect"
      ensured   == connected /\ li.step # "ensure"
      written   == li.step = "none"
  IN  [ catalog |-> IF ensured THEN ensure_log_table(catalog) ELSE catalog,
        log     |-> IF written
                    THEN InsertRow(log, [action |-> action, status |-> status,
                                         message |-> message])
                    ELSE log,
        raised  |-> connected /\ li.close,
        leaked  |-> connected /\ (li.close \/ ~written),
        dropped |-> ~written ]

log_best_effort(action, status, message, li) ==
  LET connected == li.step # "connect"
      ensured   == connected /\ li.step # "ensure"
      written   == li.step = "none"
  IN  [ catalog |-> IF ensured THEN ensure_log_table(catalog) ELSE catalog,
        log     |-> IF written
                    THEN InsertRow(log, [action |-> action, status |-> status,
                                         message |-> message])
                    ELSE log,
        raised  |-> connected /\ li.close,
        leaked  |-> connected /\ li.close,
        dropped |-> ~written ]

(* ----------------------------- run state ------------------------------- *)
\* The state of one process.  pc is the statement of main it is at; conn,
\* cur, cfg, next_version and latest_version are main's locals; pending
\* holds the rows its open transaction has inserted; err is the exception
\* the except clause of line 229 has caught; exiting is the status the
\* process is ending with while the finally block runs, exit the status
\* it ended with.  The other fields record what the run did: its inputs
\* (name, file, doc), the first step of main that failed (pfail), its
\* audit calls
\* (calls), the calls on its connection (ops), whether its insert was
\* committed, whether a log_best_effort call raised (lograised), the
\* audit connections left open (logleaks) and the numbers of failures
\* injected into its audit calls (logfaults) and into the run (injected).
NewRun == [ pc |-> "read_config", name |-> "", file |-> "", doc |-> NoDoc,
            cfg |-> NoDoc, conn |-> "none", cur |-> FALSE,
            pending |-> << >>, next_version |-> 0, latest_version |-> 0,
            err |-> "none", pfail |-> "none", exiting |-> 0, exit |-> -1,
            calls |-> << >>, ops |-> << >>,
            committed |-> FALSE, lograised |-> FALSE, logleaks |-> 0,
            logfaults |-> 0, injected |-> 0 ]

Init ==
  /\ catalog = << >>
  /\ app_config = EmptyBag
  /\ log = EmptyBag
  /\ run = [r \in Runs |-> NewRun]
  /\ faults = 0
  /\ disk = SmallDocs

\* The store and the processes are the same; the disk holds all documents.
InitSeq ==
  /\ catalog = << >>
  /\ app_config = EmptyBag
  /\ log = EmptyBag
  /\ run = [r \in Runs |-> NewRun]
  /\ faults = 0
  /\ disk = Docs

Call(action, status) == [action |-> action, status |-> status]

NoLogFault == [step |-> "none", close |-> FALSE]
Cost(fail) == IF fail THEN 1 ELSE 0

\* Bookkeeping of one audit call made by a run, with its result res.
AfterLog(rec, action, status, li, res) ==
  [rec EXCEPT !.calls = Append(@, Call(action, status)),
              !.lograised = @ \/ res.raised,
              !.logleaks = @ + (IF res.leaked THEN 1 ELSE 0),
              !.logfaults = @ + LogCost(li),
              !.injected = @ + LogCost(li)]

(* ----------------------------- read_config ----------------------------- *)
\* The except clauses of read_config: a missing file and a JSON syntax
\* error are logged and end the process; any other exception of open() or
\* json.load (PermissionError, UnicodeDecodeError, ...) is not caught.
ReadOutcome_nojson(kind) ==
  CASE kind = "ok" -> "return"
    [] kind = "missing" -> "file_not_found"
    [] OTHER -> "uncaught"

ReadOutcome(kind) ==
  CASE kind = "ok" -> "return"
    [] kind = "missing" -> "file_not_found"
    [] kind = "malformed" -> "json_decode"
    [] OTHER -> "uncaught"

\* main line 187 and read_config: the process starts with its CONFIG_NAME
\* and CONFIG_PATH.  The runs are numbered in the order they start.
ReadConfig(r) ==
  /\ run[r].pc = "read_config"
  /\ r > 1 => run[r - 1].pc # "read_config"
  /\ UNCHANGED disk
  /\ \E n \in Names, f \in Files(disk), li \in LogInputs :
       LET started == [run[r] EXCEPT !.name = n, !.file = f.kind, !.doc = f.doc]
           outcome == ReadOutcome(f.kind)
       IN
       \/ /\ outcome = "return"
          /\ li = NoLogFault
          /\ run' = [run EXCEPT ![r] =
                       [started EXCEPT !.cfg = json_load(f.doc), !.pc = "connect"]]
          /\ UNCHANGED <<catalog, app_config, log, faults>>
       \/ /\ outcome \in {"file_not_found", "json_decode"}
          /\ faults + LogCost(li) <= MaxFaults
          /\ LET res == log_best_effort("INIT_CONFIG_READ_FILE", "FAIL",
                                        Msg(outcome, 0, ""), li)
             IN  /\ catalog' = res.catalog
                 /\ log' = res.log
                 /\ run' = [run EXCEPT ![r] =
                      [AfterLog(started, "INIT_CONFIG_READ_FILE", "FAIL", li, res)
                         EXCEPT !.pc = "done", !.exit = 1, !.pfail = outcome]]
          /\ faults' = faults + LogCost(li)
          /\ UNCHANGED app_config
       \/ /\ outcome = "uncaught"
          /\ li = NoLogFault
          /\ run' = [run EXCEPT ![r] =
                       [started EXCEPT !.pc = "done", !.exit = 1,
                                       !.pfail = "uncaught"]]
          /\ UNCHANGED <<catalog, app_config, log, faults>>

(* ------------------------------- connect ------------------------------- *)
\* main lines 191-198: get_raw_conn() either returns a connection or
\* raises; the failure is logged and the process exits 1.
Connect(r) ==
  /\ run[r].pc = "connect"
  /\ UNCHANGED disk
  /\ \E fail \in BOOLEAN, li \in LogInputs :
       \/ /\ ~fail
          /\ li = NoLogFault
          /\ run' = [run EXCEPT ![r].conn = "open", ![r].pc = "provision",
                                ![r].ops = Append(@, "connect")]
          /\ UNCHANGED <<catalog, app_config, log, faults>>
       \/ /\ fail
          /\ faults + 1 + LogCost(li) <= MaxFaults
          /\ LET res == log_best_effort("INIT_CONFIG_DB_CONNECT", "FAIL",
                                        Msg("db_connect", 0, ""), li)
             IN  /\ catalog' = res.catalog
                 /\ log' = res.log
                 /\ run' = [run EXCEPT ![r] =
                      [AfterLog(run[r], "INIT_CONFIG_DB_CONNECT", "FAIL", li, res)
                         EXCEPT !.pc = "done", !.exit = 1,
                                !.ops = Append(@, "connect"),
                                !.injected = @ + 1,
                                !.pfail = "db_connect"]]
          /\ faults' = faults + 1 + LogCost(li)
          /\ UNCHANGED app_config

(* ------------------------------ provision ------------------------------ *)
\* main lines 201-205: cur = conn.cursor(); ensure_schema_and_table(cur);
\* conn.commit().  The DDL is transactional: the objects exist for other
\* connections once the commit has succeeded.
ProvisionSteps == {"none", "cursor", "ddl", "commit"}

ProvisionOps_nocommit(step) ==
  CASE step = "cursor" -> <<"cursor">>
    [] OTHER -> <<"cursor", "ensure_schema_and_table">>

ProvisionOps(step) ==
  CASE step = "cursor" -> <<"cursor">>
    [] step = "ddl" -> <<"cursor", "ensure_schema_and_table">>
    [] OTHER -> <<"cursor", "ensure_schema_and_table", "commit">>

Provision(r) ==
  /\ run[r].pc = "provision"
  /\ UNCHANGED disk
  /\ \E step \in ProvisionSteps :
       /\ faults + Cost(step # "none") <= MaxFaults
       /\ faults' = faults + Cost(step # "none")
       /\ catalog' = IF step = "none" THEN ensure_schema_and_table(catalog)
                     ELSE catalog
       /\ run' = [run EXCEPT ![r].cur = (step # "cursor"),
                             ![r].ops = @ \o ProvisionOps(step),
                             ![r].pc = IF step = "none" THEN "allocate" ELSE "handler",
                             ![r].injected = @ + Cost(step # "none"),
                             ![r].pfail = IF step = "none" THEN "none" ELSE "provision",
                             ![r].err = IF step = "none" THEN "none" ELSE "provision"]
       /\ UNCHANGED <<app_config, log>>

(* --------------------------- get_next_version -------------------------- *)
Max(S) == CHOOSE x \in S : \A y \in S : y <= x

\* The rows of the table with the given name
RowsOf(table, name) == { row \in BagToSet(table) : row.name = name }

get_next_version_skip(rows, name) ==
  LET latest == Max({ row.version : row \in RowsOf(rows, name) } \cup {0})
  IN  <<latest + 2, latest>>

get_next_version_allnames(rows, name) ==
  LET latest == Max({ row.version : row \in BagToSet(rows) } \cup {0})
  IN  <<latest + 1, latest>>

\* SELECT COALESCE(MAX(version), 0) ... WHERE name = %s; returns
\* (latest + 1, latest).
get_next_version(rows, name) ==
  LET latest == Max({ row.version : row \in RowsOf(rows, name) } \cup {0})
  IN  <<latest + 1, latest>>

\* main line 211.  The statement sees the rows committed so far.
Allocate(r) ==
  /\ run[r].pc = "allocate"
  /\ UNCHANGED disk
  /\ \E fail \in BOOLEAN :
       /\ faults + Cost(fail) <= MaxFaults
       /\ faults' = faults + Cost(fail)
       /\ LET nv == get_next_version(app_config, run[r].name)
          IN  run' = [run EXCEPT
                 ![r].ops = Append(@, "get_next_version"),
                 ![r].next_version = IF fail THEN @ ELSE nv[1],
                 ![r].latest_version = IF fail THEN @ ELSE nv[2],
                 ![r].pc = IF fail THEN "handler" ELSE "insert",
                 ![r].injected = @ + Cost(fail),
                 ![r].pfail = IF fail THEN "allocate" ELSE "none",
                 ![r].err = IF fail THEN "allocate" ELSE "none"]
       /\ UNCHANGED <<catalog, app_config, log>>

(* -------------------------- insert_new_version ------------------------- *)
\* UNIQUE (name, version) of controller.app_config (line 150)
UniqueViolation_anyname(table, name, version) ==
  \E row \in BagToSet(table) : row.version = version

UniqueViolation_off(table, name, version) == FALSE

UniqueViolation(table, name, version) ==
  \E row \in BagToSet(table) : row.name = name /\ row.version = version

\* The key is held by the uncommitted insert of another connection.
KeyLocked(r, name, version) ==
  \E q \in Runs \ {r} :
     /\ run[q].pending # << >>
     /\ run[q].pending[1].name = name
     /\ run[q].pending[1].version = version

\* The row of INSERT INTO controller.app_config (name, version, config)
insert_new_version(name, version, cfg_json) ==
  [name |-> name, version |-> version,
   config |-> JsonbValue(json_dumps(cfg_json))]

AfterInsert_retry(err) ==
  CASE err = "none" -> "commit"
    [] err = "unique" -> "allocate"
    [] OTHER -> "handler"

\* main lines 216-217 and 229: after insert_new_version the run commits;
\* an exception of the insert goes to the handler, there is no loop.
AfterInsert(err) == IF err = "none" THEN "commit" ELSE "handler"

\* main line 216
Insert(r) ==
  /\ run[r].pc = "insert"
  /\ UNCHANGED disk
  /\ \E fail \in BOOLEAN :
       LET name == run[r].name
           version == run[r].next_version
           err == IF fail THEN "insert"
                  ELSE IF UniqueViolation(app_config, name, version) THEN "unique"
                  ELSE "none"
       IN
       /\ faults + Cost(fail) <= MaxFaults
       /\ faults' = faults + Cost(fail)
       /\ err = "none" => ~KeyLocked(r, name, version)
       /\ run' = [run EXCEPT
            ![r].ops = Append(@, "insert_new_version"),
            ![r].pending = IF err = "none"
                           THEN <<insert_new_version(name, version, run[r].cfg)>>
                           ELSE @,
            ![r].pc = AfterInsert(err),
            ![r].injected = @ + Cost(fail),
            ![r].pfail = err,
            ![r].err = err]
       /\ UNCHANGED <<catalog, app_config, log>>

(* -------------------------------- commit ------------------------------- *)
\* main line 217: conn.commit() makes the inserted row durable.
Commit(r) ==
  /\ run[r].pc = "commit"
  /\ UNCHANGED disk
  /\ \E fail \in BOOLEAN :
       /\ faults + Cost(fail) <= MaxFaults
       /\ faults' = faults + Cost(fail)
       /\ app_config' = IF fail THEN app_config
                        ELSE InsertRow(app_config, run[r].pending[1])
       /\ run' = [run EXCEPT
            ![r].ops = Append(@, "commit"),
            ![r].pending = IF fail THEN @ ELSE << >>,
            ![r].committed = ~fail,
            ![r].pc = IF fail THEN "handler" ELSE "log_success",
            ![r].injected = @ + Cost(fail),
            ![r].pfail = IF fail THEN "commit" ELSE "none",
            ![r].err = IF fail THEN "commit" ELSE "none"]
       /\ UNCHANGED <<catalog, log>>

(* ----------------------------- log SUCCESS ----------------------------- *)
\* main lines 223-227, inside the try block: an exception that leaves
\* log_best_effort is caught by `except Exception` at line 229.
LogSuccess(r) ==
  /\ run[r].pc = "log_success"
  /\ UNCHANGED disk
  /\ \E li \in LogInputs :
       /\ faults + LogCost(li) <= MaxFaults
       /\ faults' = faults + LogCost(li)
       /\ LET res == log_best_effort("INIT_CONFIG", "SUCCESS",
                       Msg("Inserted", run[r].next_version, run[r].name), li)
          IN  /\ catalog' = res.catalog
              /\ log' = res.log
              /\ run' = [run EXCEPT ![r] =
                   [AfterLog(run[r], "INIT_CONFIG", "SUCCESS", li, res)
                      EXCEPT !.pc = IF res.raised THEN "handler" ELSE "finally",
                             !.err = IF res.raised THEN "log" ELSE "none",
                             !.exiting = 0]]
       /\ UNCHANGED app_config

(* --------------------------- failure handler --------------------------- *)
\* conn.rollback(): the rows the transaction inserted are discarded and
\* the table is left as committed.
rollback_keeps(table, pending) == [table |-> table, pending |-> pending]

rollback_commits(table, pending) ==
  [table |-> IF pending = << >> THEN table ELSE InsertRow(table, pending[1]),
   pending |-> << >>]

rollback(table, pending) == [table |-> table, pending |-> << >>]

\* main lines 229-235: print, conn.rollback(), log FAIL, sys.exit(1).  An
\* exception raised by rollback() or by log_best_effort leaves the handler
\* at once; either way the finally block runs next and the process ends
\* with status 1.
Handler(r) ==
  /\ run[r].pc = "handler"
  /\ UNCHANGED disk
  /\ \E rbfail \in BOOLEAN, li \in LogInputs :
       \/ /\ rbfail
          /\ li = NoLogFault
          /\ faults + 1 <= MaxFaults
          /\ faults' = faults + 1
          /\ run' = [run EXCEPT ![r].ops = @ \o <<"print_error", "rollback">>,
                                ![r].pc = "finally",
                                ![r].injected = @ + 1,
                                ![r].exiting = 1]
          /\ UNCHANGED <<catalog, app_config, log>>
       \/ /\ ~rbfail
          /\ faults + LogCost(li) <= MaxFaults
          /\ faults' = faults + LogCost(li)
          /\ LET res == log_best_effort("INIT_CONFIG", "FAIL",
                                        Msg(run[r].err, 0, ""), li)
             IN  /\ catalog' = res.catalog
                 /\ log' = res.log
                 /\ run' = [run EXCEPT ![r] =
                      [AfterLog(run[r], "INIT_CONFIG", "FAIL", li, res)
                         EXCEPT !.ops = @ \o <<"print_error", "rollback", "log_fail">>
                                          \o (IF res.raised THEN << >> ELSE <<"exit">>),
                                !.pending = rollback(app_config, run[r].pending).pending,
                                !.pc = "finally",
                                !.exiting = 1]]
          /\ app_config' = rollback(app_config, run[r].pending).table

(* ------------------------------- finally ------------------------------- *)
\* main lines 236-241: cur.close() is guarded, conn.close() is not.  An
\* exception of conn.close() replaces the pending exit and ends the
\* process with a traceback, status 1.  When the process ends the server
\* discards its open transaction.
Finally(r) ==
  /\ run[r].pc = "finally"
  /\ UNCHANGED disk
  /\ \E curfail \in BOOLEAN, closefail \in BOOLEAN :
       /\ faults + Cost(curfail) + Cost(closefail) <= MaxFaults
       /\ faults' = faults + Cost(curfail) + Cost(closefail)
       /\ run' = [run EXCEPT
            ![r].ops = @ \o <<"cur.close", "conn.close">>,
            ![r].cur = FALSE,
            ![r].conn = IF closefail THEN "leaked" ELSE "closed",
            ![r].injected = @ + Cost(curfail) + Cost(closefail),
            ![r].pending = << >>,
            ![r].exit = IF closefail THEN 1 ELSE run[r].exiting,
            ![r].pc = "done"]
       /\ UNCHANGED <<catalog, app_config, log>>

main(r) ==
  \/ ReadConfig(r)
  \/ Connect(r)
  \/ Provision(r)
  \/ Allocate(r)
  \/ Insert(r)
  \/ Commit(r)
  \/ LogSuccess(r)
  \/ Handler(r)
  \/ Finally(r)

\* Independent processes: any run may take the next step.
Next == \E r \in Runs : main(r)

Spec == Init /\ [][Next]_vars

\* Each run is a process of its own that keeps running until it ends, and
\* every call it makes returns or raises.
SpecFair == Spec /\ \A r \in Runs : WF_vars(main(r))

\* One process after the other: a run starts when the runs before it have
\* ended.
StartNext(r) == (\A q \in 1..(r - 1) : run[q].pc = "done") /\ ReadConfig(r)

NextSeq ==
  \E r \in Runs :
     \/ StartNext(r)
     \/ Connect(r)
     \/ Provision(r)
     \/ Allocate(r)
     \/ Insert(r)
     \/ Commit(r)
     \/ LogSuccess(r)
     \/ Handler(r)
     \/ Finally(r)

SpecSeq == InitSeq /\ [][NextSeq]_vars

(* ============================== claims ================================= *)
Done(r) == run[r].pc = "done"

\* The runs for a name whose insert was committed
Committers(n) == { r \in Runs : run[r].committed /\ run[r].name = n }

Versions(n) == { row.version : row \in RowsOf(app_config, n) }

\* The versions of every name are 1..k, each on exactly one row, where k
\* is the number of runs that committed an insert for the name.
Contiguous(n) ==
  LET k == Cardinality(Committers(n))
  IN  /\ Versions(n) = 1..k
      /\ Cardinality(RowsOf(app_config, n)) = k
      /\ \A row \in RowsOf(app_config, n) : CopiesIn(row, app_config) = 1

\* C1: in every reachable state, for each config name the versions of its
\* committed rows are exactly 1..k without gap or duplicate, k being the
\* number of runs that committed an insert for that name.
C1_VersionsContiguous == \A n \in Names : Contiguous(n)

\* Two runs for one name have both committed.
C1_Witness == \E n \in Names : Cardinality(Committers(n)) >= 2

\* Under SpecSeq the runs are made one after another.  Runs 1..K were
\* all for the name of run 1 and all ended with status 0.
Sequential(K) ==
  \A i \in 1..K : /\ Done(i)
                  /\ run[i].name = run[1].name
                  /\ run[i].exit = 0

Holds(n, v, doc) ==
  CopiesIn([name |-> n, version |-> v, config |-> doc], app_config) = 1

NearestDouble(d, v) ==
  LET s == IF d.exp2 < MantissaBits THEN 1 ELSE 2 ^ (d.exp2 - MantissaBits + 1)
      diff == IF v.low >= d.low THEN v.low - d.low ELSE d.low - v.low
  IN  /\ v.exp2 = d.exp2
      /\ v.low % s = 0
      /\ 2 * diff <= s

Raced(a, b) ==
  /\ a # b
  /\ Done(a) /\ Done(b)
  /\ run[a].name = run[b].name
  /\ run[a].next_version > 0
  /\ run[a].next_version = run[b].next_version
  /\ run[a].injected = 0 /\ run[b].injected = 0

\* Run r lost the race: its insert failed on the uniqueness constraint, it
\* rolled back, made the INIT_CONFIG FAIL audit call, whose row is in the
\* log, and exited 1 with nothing committed.
Lost(r) ==
  /\ run[r].pfail = "unique"
  /\ ~run[r].committed
  /\ run[r].pending = << >>
  /\ \E i \in 1..Len(run[r].ops) : run[r].ops[i] = "rollback"
  /\ run[r].calls = <<Call("INIT_CONFIG", "FAIL")>>
  /\ BagIn([action |-> "INIT_CONFIG", status |-> "FAIL",
            message |-> Msg("unique", 0, "")], log)
  /\ run[r].exit = 1

Won(r) ==
  /\ run[r].committed
  /\ run[r].exit = 0
  /\ \E row \in RowsOf(app_config, run[r].name) :
        row.version = run[r].next_version /\ CopiesIn(row, app_config) = 1

\* C3: of two runs for one name that read the same latest version K, at
\* most one commits version K+1; the one that does exits 0, the other one
\* fails on the uniqueness constraint, is rolled back, audited as
\* INIT_CONFIG FAIL and exits 1; one of the two commits unless a third run
\* has committed K+1; the versions of the name keep neither gap nor
\* duplicate.
C3_RaceHasOneWinner ==
  \A a, b \in Runs : Raced(a, b) =>
     /\ ~(run[a].committed /\ run[b].committed)
     /\ run[a].committed => Won(a) /\ Lost(b)
     /\ run[b].committed => Won(b) /\ Lost(a)
     /\ (~run[a].committed /\ ~run[b].committed) =>
           /\ Lost(a) /\ Lost(b)
           /\ \E c \in Runs \ {a, b} :
                 /\ run[c].committed
                 /\ run[c].name = run[a].name
                 /\ run[c].next_version = run[a].next_version
     /\ Contiguous(run[a].name)

\* Two runs raced and one of them committed.
C3_Witness == \E a, b \in Runs : Raced(a, b) /\ run[a].committed /\ Lost(b)

\* Every row of the table before the step is there after it, as often.
Kept(table, table2) ==
  \A row \in BagToSet(table) : CopiesIn(row, table) <= CopiesIn(row, table2)

\* C4: no step of any run changes or removes a committed app_config row or
\* log row; steps only add rows.
C4_AppendOnly == [][Kept(app_config, app_config') /\ Kept(log, log')]_vars

\* A run has read a committed version of its name, then failed, made its
\* audit call and ended, with two rows in the log.
C4_Witness ==
  \E r \in Runs :
     /\ Done(r) /\ run[r].exit = 1
     /\ run[r].latest_version >= 1
     /\ run[r].calls # << >>
     /\ BagCardinality(log) >= 2

\* C5 as stated: log_best_effort never raises, whichever of its steps
\* fails; no caller ever sees an exception come out of it.
C5_LogNeverRaises == \A r \in Runs : ~run[r].lograised

\* C6 as stated: a run ends with status 0 or 1; with 0 exactly when it
\* committed its row, so never with 1 after having persisted a version.
C6_ExitMatchesCommit ==
  \A r \in Runs : Done(r) =>
     /\ run[r].exit \in {0, 1}
     /\ run[r].exit = 0 <=> run[r].committed

DbFailures == {"provision", "allocate", "insert", "unique", "commit"}

\* The audit call that matches the outcome of a run
ExpectedCall(pfail) ==
  CASE pfail \in {"file_not_found", "json_decode"} -> Call("INIT_CONFIG_READ_FILE", "FAIL")
    [] pfail = "db_connect" -> Call("INIT_CONFIG_DB_CONNECT", "FAIL")
    [] pfail \in DbFailures -> Call("INIT_CONFIG", "FAIL")
    [] OTHER -> Call("INIT_CONFIG", "SUCCESS")

\* C7 as stated: every run that has ended has made the audit call whose
\* (action, status) matches its outcome, and no run ends without one.
C7_AuditMatchesOutcome ==
  \A r \in Runs : Done(r) =>
     IF run[r].pfail = "uncaught"
     THEN run[r].calls # << >>
     ELSE run[r].calls = <<ExpectedCall(run[r].pfail)>>

\* Runs a and b had the same inputs and the same outcome of every step of
\* main itself; they differ at most in what happened inside
\* log_best_effort.
SamePrimary(a, b) ==
  /\ run[a].name = run[b].name
  /\ run[a].file = run[b].file
  /\ run[a].doc = run[b].doc
  /\ run[a].pfail = run[b].pfail
  /\ (run[a].conn = "leaked") <=> (run[b].conn = "leaked")
  /\ run[a].injected - run[a].logfaults = run[b].injected - run[b].logfaults

\* C8 as stated: two runs that differ only in whether the steps inside
\* log_best_effort fail end with the same exit status and the same
\* effect on app_config.
C8_OutcomeIndependentOfLogging ==
  \A a, b \in Runs : (Done(a) /\ Done(b) /\ SamePrimary(a, b)) =>
     /\ run[a].exit = run[b].exit
     /\ run[a].committed = run[b].committed

\* C9: once provisioning, allocation, insert or a commit has raised in a
\* run, the steps of that run leave app_config as it is, the run never
\* counts as committed, rollback() is called, and when the run has ended
\* nothing of its transaction is left.
C9_FailedRunPersistsNothing ==
  [][\A r \in Runs :
       (run[r].pfail \in DbFailures /\ run'[r] # run[r]) =>
          /\ app_config' = app_config
          /\ ~run'[r].committed
          /\ run'[r].pc \in {"finally", "done"}
          /\ \E i \in 1..Len(run'[r].ops) : run'[r].ops[i] = "rollback"
          /\ run'[r].pc = "done" => run'[r].pending = << >>]_vars

\* A run whose commit raised has ended; so has one that lost a version
\* race.
C9_Witness ==
  \E r \in Runs : Done(r) /\ run[r].pfail = "commit"

\* C10: a run whose file is missing or malformed has made the
\* INIT_CONFIG_READ_FILE FAIL audit call and exited 1 without opening the
\* primary connection, running provisioning, allocation or insert, or
\* reaching the failure handler of main.
C10_FileErrorEndsRun ==
  \A r \in Runs : run[r].file \in {"missing", "malformed"} =>
     /\ Done(r)
     /\ run[r].exit = 1
     /\ run[r].calls = <<Call("INIT_CONFIG_READ_FILE", "FAIL")>>
     /\ run[r].conn = "none"
     /\ run[r].ops = << >>
     /\ run[r].pending = << >>
     /\ run[r].next_version = 0
     /\ run[r].err = "none"

\* One run has ended on a missing file and one on a malformed file.
C10_Witness ==
  \E r, q \in Runs : run[r].file = "missing" /\ run[q].file = "malformed"

SchemaObjects == {"controller", "controller.log", "controller.app_config",
                  "idx_app_config_name_version"}

Objects(cat) == { cat[i] : i \in 1..Len(cat) }

NoDuplicate(cat) == \A i, j \in 1..Len(cat) : cat[i] = cat[j] => i = j

\* Run r has run ensure_schema_and_table and committed it in this step.
ProvisionedIn(r, before, after) ==
  before[r].pc = "provision" /\ after[r].pc = "allocate"

\* C11: from every store state a run reaches (empty, only the schema and
\* the log table, fully provisioned) ensure_schema_and_table leaves exactly
\* the four schema objects, each once; run on a provisioned store it
\* changes nothing; a further run changes nothing; the rows of both tables
\* are untouched.
C11_ProvisionIdempotent ==
  [][/\ NoDuplicate(catalog')
     /\ \A r \in Runs : ProvisionedIn(r, run, run') =>
          /\ Objects(catalog') = SchemaObjects
          /\ Objects(catalog) = SchemaObjects => catalog' = catalog
          /\ \A i \in 1..Len(catalog) : catalog'[i] = catalog[i]
          /\ ensure_schema_and_table(catalog') = catalog'
          /\ ensure_log_table(catalog') = catalog'
          /\ app_config' = app_config
          /\ log' = log]_vars

\* Both runs have provisioned, so one of them did on a provisioned store;
\* or a run has provisioned a store that held only the schema and the log
\* table, made by the audit call of a run that could not read its file.
C11_Witness ==
  \/ \E r, q \in Runs :
        /\ r # q
        /\ run[r].pc = "allocate" /\ run[q].pc = "allocate"
  \/ \E r, q \in Runs :
        /\ run[q].file = "missing" /\ run[q].logfaults = 0
        /\ run[r].pc = "allocate"
        /\ BagCardinality(log) = 1

\* C12: get_next_version returns (latest + 1, latest), latest being the
\* greatest version among the committed rows of the given name, 0 when
\* the name has no row; rows of other names do not count.
C12_NextVersionIsMaxPlusOne ==
  [][\A r \in Runs :
       (run[r].pc = "allocate" /\ run'[r].pc = "insert") =>
          LET mine == { row \in BagToSet(app_config) : row.name = run[r].name }
              latest == run'[r].latest_version
          IN  /\ run'[r].next_version = latest + 1
              /\ mine = {} => latest = 0
              /\ mine # {} => /\ \E row \in mine : row.version = latest
                              /\ \A row \in mine : row.version <= latest]_vars

\* A run has read a latest version of 1 or more; or it has read 0 for its
\* name while the table held a row of the other name.
C12_Witness ==
  \/ \E r \in Runs : run[r].pc = "insert" /\ run[r].latest_version >= 1
  \/ \E r, q \in Runs :
        /\ run[r].pc = "insert" /\ run[r].latest_version = 0
        /\ Done(q) /\ run[q].committed /\ run[q].name # run[r].name
        /\ Len(run[r].ops) = 5

C14_CleanupBestEffort ==
  \A r \in Runs :
    (Done(r) /\ run[r].conn # "none") => run[r].exit = run[r].exiting

\* The positions of call c among the calls a run made on its connection.
At(ops, c) == { i \in 1..Len(ops) : ops[i] = c }

Stored(n, v) == \E row \in BagToSet(app_config) : row.name = n /\ row.version = v

\* C15: the commit of the provisioning is the call before
\* get_next_version; insert_new_version is the call after it, with no
\* commit and no rollback in between; the call after a successful insert
\* is the second and last commit, and the row is durable from that commit
\* and not before.
C15_ReadAndInsertInOneTransaction ==
  \A r \in Runs :
    LET o == run[r].ops
    IN  /\ \A i \in At(o, "get_next_version") :
             /\ i = 5
             /\ o[4] = "commit" /\ o[3] = "ensure_schema_and_table"
             /\ Len(o) > 5 => o[6] \in {"insert_new_version", "print_error"}
        /\ \A i \in At(o, "insert_new_version") :
             /\ i = 6
             /\ o[5] = "get_next_version"
             /\ Len(o) > 6 => o[7] \in {"commit", "print_error"}
        /\ \A i \in At(o, "rollback") : i > 1 /\ o[i - 1] = "print_error"
        /\ At(o, "commit") \subseteq {4, 7}
        /\ run[r].pc = "commit" =>
             /\ Len(o) = 6
             /\ Len(run[r].pending) = 1
             /\ run[r].pending[1].name = run[r].name
             /\ run[r].pending[1].version = run[r].next_version
             /\ ~Stored(run[r].name, run[r].next_version)
        /\ run[r].committed =>
             /\ At(o, "commit") = {4, 7}
             /\ o[6] = "insert_new_version"
             /\ Stored(run[r].name, run[r].next_version)
             /\ run[r].pending = << >>

\* A run has read the version, inserted and committed.
C15_Witness ==
  \E r \in Runs :
    /\ Done(r) /\ run[r].committed
    /\ run[r].next_version = run[r].latest_version + 1
    /\ Len(run[r].ops) = 9

Success == Call("INIT_CONFIG", "SUCCESS")

\* C16: in every state, interleaved runs included, an INIT_CONFIG SUCCESS
\* row of the log naming version v of name N means app_config holds the
\* committed row (N, v); a run makes the SUCCESS call only with its row
\* committed, and is about to make it only then.
C16_SuccessOnlyAfterCommit ==
  /\ \A row \in BagToSet(log) :
       (row.action = "INIT_CONFIG" /\ row.status = "SUCCESS") =>
          /\ row.message.version >= 1
          /\ \E r \in Runs : /\ run[r].name = row.message.name
                             /\ run[r].next_version = row.message.version
                             /\ run[r].committed
          /\ Stored(row.message.name, row.message.version)
  /\ \A r \in Runs :
       (run[r].pc = "log_success" \/ At(run[r].calls, Success) # {}) =>
          /\ run[r].committed
          /\ At(run[r].ops, "commit") = {4, 7}
          /\ Stored(run[r].name, run[r].next_version)

\* Two runs have committed, and the log holds the SUCCESS row of one.
C16_Witness ==
  /\ \E row \in BagToSet(log) : row.status = "SUCCESS"
  /\ \E r, q \in Runs : r # q /\ run[r].committed /\ run[q].committed

\* The handler of line 229 has run in run r.
Handled(r) == run[r].err # "none" /\ run[r].pc \in {"finally", "done"}

\* The failures injected into run r after the step that raised into the
\* handler: into conn.rollback(), or into the finally block.
LateFaults(r) ==
  run[r].injected - run[r].logfaults
    - (IF run[r].pfail \in DbFailures \ {"unique"} THEN 1 ELSE 0)

Rank(pc) ==
  CASE pc = "read_config" -> 0
    [] pc = "connect" -> 1
    [] pc = "provision" -> 2
    [] pc = "allocate" -> 3
    [] pc = "insert" -> 4
    [] pc = "commit" -> 5
    [] pc = "log_success" -> 6
    [] pc = "handler" -> 7
    [] pc = "finally" -> 8
    [] OTHER -> 9

\* C18: every run ends; a run calls get_next_version at most once and
\* insert_new_version at most once; every step takes it forward in the
\* program text, and after insert_new_version it is at the commit or, the
\* insert having raised, in the handler, never back at get_next_version.
C18_TerminatesWithoutRetry ==
  /\ <>[](\A r \in Runs : Done(r))
  /\ [](\A r \in Runs :
          /\ Cardinality(At(run[r].ops, "get_next_version")) <= 1
          /\ Cardinality(At(run[r].ops, "insert_new_version")) <= 1)
  /\ [][\A r \in Runs :
          /\ run'[r] # run[r] => Rank(run'[r].pc) > Rank(run[r].pc)
          /\ (run[r].pc = "insert" /\ run'[r].pc # "insert") =>
               /\ run'[r].pc = IF run'[r].err = "none" THEN "commit"
                               ELSE "handler"
               /\ run'[r].latest_version = run[r].latest_version
               /\ run'[r].next_version = run[r].next_version]_vars

\* A run whose insert failed on the uniqueness constraint has ended, with
\* one get_next_version and one insert_new_version call.
C18_Witness ==
  \E r \in Runs :
    /\ Done(r) /\ run[r].pfail = "unique"
    /\ Cardinality(At(run[r].ops, "get_next_version")) = 1
    /\ Cardinality(At(run[r].ops, "insert_new_version")) = 1

\* C19: a run makes at most one audit call, so never a SUCCESS and a FAIL
\* call and never calls of two actions, whichever step fails.
C19_AtMostOneAuditCall ==
  \A r \in Runs : Len(run[r].calls) <= 1

\* Run r read its file and no failure was injected into it.
Clean(r) == run[r].file = "ok" /\ run[r].injected = 0

\* C20: a run with no injected failure fails on the uniqueness constraint
\* only against a committed row of its own name; a run that is the only
\* one of its name commits version 1, exits 0 and stores its row once,
\* whatever the runs of the other name do; and the versions of each name
\* are 1..k for its k committed runs, as when its runs execute alone.
C20_NamesDoNotInterfere ==
  /\ \A r \in Runs :
       (Done(r) /\ Clean(r)) =>
          /\ run[r].pfail \in {"none", "unique"}
          /\ run[r].pfail = "unique" =>
               \E q \in Runs \ {r} :
                  /\ run[q].name = run[r].name
                  /\ run[q].next_version = run[r].next_version
                  /\ run[q].committed
          /\ (\A q \in Runs \ {r} : run[q].name # run[r].name) =>
               /\ run[r].committed /\ run[r].exit = 0
               /\ run[r].next_version = 1 /\ run[r].latest_version = 0
               /\ Versions(run[r].name) = {1}
               /\ \A row \in BagToSet(app_config) :
                    row.name = run[r].name => CopiesIn(row, app_config) = 1
  /\ \A n \in Names :
       Versions(n) = 1..Cardinality(Committers(n))

\* Two runs of different names, no failure injected, have both ended with
\* version 1 of their name committed.
C20_Witness ==
  \E r, q \in Runs :
    /\ run[r].name = "lottery" /\ run[q].name = "other"
    /\ Done(r) /\ Clean(r) /\ run[r].committed /\ run[r].next_version = 1
    /\ Done(q) /\ Clean(q) /\ run[q].committed /\ run[q].next_version = 1
====
